---------------------------- MODULE Spec2Model ----------------------------
(***************************************************************************)
(* monorepo-example: an Express server with one route (server.ts lines     *)
(* 1-25), a React client whose button fetches that route (lines 27-65),    *)
(* and a git submodule embedded in the client package (README.md).         *)
(*                                                                         *)
(* Strings that are transformed, serialised or parsed are sequences of     *)
(* one-character strings, so that snakeCase, JSON.stringify and JSON.parse *)
(* are computed character by character.                                    *)
(***************************************************************************)
EXTENDS Naturals, Sequences, FiniteSets, TLC

(***************************************************************************)
(* Characters                                                              *)
(***************************************************************************)
LowerChars == <<"a", "b", "c", "d", "e", "f", "g", "h", "i", "j", "k", "l", "m",
                "n", "o", "p", "q", "r", "s", "t", "u", "v", "w", "x", "y", "z">>

UpperChars == <<"A", "B", "C", "D", "E", "F", "G", "H", "I", "J", "K", "L", "M",
                "N", "O", "P", "Q", "R", "S", "T", "U", "V", "W", "X", "Y", "Z">>

DigitChars == <<"0", "1", "2", "3", "4", "5", "6", "7", "8", "9">>

Range(f) == {f[i] : i \in DOMAIN f}

IsLower(c) == c \in Range(LowerChars)

IsUpper(c) == c \in Range(UpperChars)

IsDigit(c) == c \in Range(DigitChars)

IsAlnum(c) == IsLower(c) \/ IsUpper(c) \/ IsDigit(c)

\* String.prototype.toLowerCase on one ASCII character.
LowerOf(c) ==
  IF IsUpper(c)
    THEN LowerChars[CHOOSE i \in DOMAIN UpperChars : UpperChars[i] = c]
    ELSE c

toLowerCase(s) == [i \in DOMAIN s |-> LowerOf(s[i])]

DigitVal(c) == (CHOOSE i \in DOMAIN DigitChars : DigitChars[i] = c) - 1

(***************************************************************************)
(* lodash _.snakeCase (called at server.ts line 17), on ASCII text:        *)
(*   words(string.replace(/['’]/g, '')).reduce((result, word, index) =>    *)
(*     result + (index ? '_' : '') + word.toLowerCase(), '')               *)
(* words() yields the maximal runs of letters and digits, cut again inside *)
(* a run between a lower-case and an upper-case letter, between a letter   *)
(* and a digit, and before the last capital of a run of capitals that a    *)
(* lower-case letter follows ("XMLHttp" -> "XML", "Http").  Ordinals such  *)
(* as "1st" and non-ASCII text are outside this model.                     *)
(***************************************************************************)
RECURSIVE DropApostrophes(_)
DropApostrophes(s) ==
  IF s = <<>> THEN <<>>
  ELSE IF Head(s) = "'" THEN DropApostrophes(Tail(s))
  ELSE <<Head(s)>> \o DropApostrophes(Tail(s))

\* A word ends between s[i-1] and s[i] although both are letters or digits.
CaseBreak(s, i) ==
  /\ i > 1
  /\ \/ IsLower(s[i-1]) /\ IsUpper(s[i])
     \/ IsDigit(s[i-1]) /\ ~IsDigit(s[i])
     \/ ~IsDigit(s[i-1]) /\ IsDigit(s[i])
     \/ /\ IsUpper(s[i-1]) /\ IsUpper(s[i])
        /\ i < Len(s) /\ IsLower(s[i+1])

\* words(s) scanned from position i; cur is the word being collected.
RECURSIVE WordsFrom(_, _, _)
WordsFrom(s, i, cur) ==
  LET flush == IF cur = <<>> THEN <<>> ELSE <<cur>>
  IN IF i > Len(s) THEN flush
     ELSE IF ~IsAlnum(s[i]) THEN flush \o WordsFrom(s, i + 1, <<>>)
     ELSE IF cur # <<>> /\ CaseBreak(s, i)
       THEN flush \o WordsFrom(s, i + 1, <<s[i]>>)
     ELSE WordsFrom(s, i + 1, Append(cur, s[i]))

words(s) == WordsFrom(s, 1, <<>>)

\* The reduce of createCompounder with the snakeCase callback.
RECURSIVE JoinLower(_, _, _)
JoinLower(ws, index, result) ==
  IF index > Len(ws) THEN result
  ELSE JoinLower(ws, index + 1,
         result \o (IF index > 1 THEN <<"_">> ELSE <<>>) \o toLowerCase(ws[index]))

\* A variant that keeps each word's case (word instead of word.toLowerCase()).
RECURSIVE JoinKeepCase(_, _, _)
JoinKeepCase(ws, index, result) ==
  IF index > Len(ws) THEN result
  ELSE JoinKeepCase(ws, index + 1,
         result \o (IF index > 1 THEN <<"_">> ELSE <<>>) \o ws[index])

snakeCaseKeepCase(s) == JoinKeepCase(words(DropApostrophes(s)), 1, <<>>)

\* The string without apostrophes and its words are each evaluated once.
snakeCase(s) ==
  CHOOSE out \in {JoinLower(ws, 1, <<>>) :
                    ws \in {words(d) : d \in {DropApostrophes(x) : x \in {s}}}} : TRUE

(***************************************************************************)
(* JavaScript values.  A scalar is tagged with its type; an object is the  *)
(* sequence of its members in insertion order.                             *)
(***************************************************************************)
StrVal(s) == [t |-> "str", s |-> s, n |-> 0]

NumVal(n) == [t |-> "num", s |-> <<>>, n |-> n]

NullVal == [t |-> "null", s |-> <<>>, n |-> 0]

Undefined == [t |-> "undefined", s |-> <<>>, n |-> 0]

Member(k, v) == [k |-> k, v |-> v]

\* obj[key]: the last member of that name, or undefined.
GetProp(m, key) ==
  IF \E i \in DOMAIN m : m[i].k = key
    THEN m[CHOOSE i \in DOMAIN m :
              m[i].k = key /\ \A j \in DOMAIN m : m[j].k = key => j <= i].v
    ELSE Undefined

(***************************************************************************)
(* JSON.stringify for an object of scalars (res.json, server.ts line 20)   *)
(***************************************************************************)
RECURSIVE Escape(_)
Escape(s) ==
  IF s = <<>> THEN <<>>
  ELSE IF Head(s) \in {"\"", "\\"} THEN <<"\\", Head(s)>> \o Escape(Tail(s))
  ELSE <<Head(s)>> \o Escape(Tail(s))

Quote(s) == <<"\"">> \o Escape(s) \o <<"\"">>

RECURSIVE Digits(_)
Digits(n) ==
  IF n < 10 THEN <<DigitChars[n + 1]>>
  ELSE Digits(n \div 10) \o <<DigitChars[(n % 10) + 1]>>

StringifyScalar(v) ==
  CASE v.t = "str" -> Quote(v.s)
    [] v.t = "num" -> Digits(v.n)
    [] OTHER -> <<"n", "u", "l", "l">>

\* Members whose value is undefined are left out, as JSON.stringify does.
RECURSIVE StringifyMembers(_, _)
StringifyMembers(m, first) ==
  IF m = <<>> THEN <<>>
  ELSE IF Head(m).v.t = "undefined" THEN StringifyMembers(Tail(m), first)
  ELSE (IF first THEN <<>> ELSE <<",">>)
       \o Quote(Head(m).k) \o <<":">> \o StringifyScalar(Head(m).v)
       \o StringifyMembers(Tail(m), FALSE)

\* The object is evaluated once, before it is serialised.
JsonStringify(m) ==
  CHOOSE out \in {<<"{">> \o StringifyMembers(x, TRUE) \o <<"}">> : x \in {m}} : TRUE

(***************************************************************************)
(* JSON.parse (response.json(), server.ts line 53) for text without white  *)
(* space whose value is a string, a natural number, null, or an object of  *)
(* such scalars.  The result says whether the text parsed (ok), the type   *)
(* of the value (t), and the scalar (v) or the members (m).                *)
(***************************************************************************)
ParseFail == [ok |-> FALSE, t |-> "none", v |-> Undefined, m |-> <<>>, next |-> 0]

\* Inside a string literal, after its opening quote.
RECURSIVE ScanString(_, _, _)
ScanString(t, i, acc) ==
  IF i > Len(t) THEN ParseFail
  ELSE IF t[i] = "\""
    THEN [ok |-> TRUE, t |-> "str", v |-> StrVal(acc), m |-> <<>>, next |-> i + 1]
  ELSE IF t[i] = "\\"
    THEN IF i + 1 <= Len(t) /\ t[i + 1] \in {"\"", "\\", "/"}
           THEN ScanString(t, i + 2, Append(acc, t[i + 1]))
           ELSE ParseFail
  ELSE ScanString(t, i + 1, Append(acc, t[i]))

RECURSIVE ScanNumber(_, _, _)
ScanNumber(t, i, acc) ==
  IF i <= Len(t) /\ IsDigit(t[i])
    THEN ScanNumber(t, i + 1, 10 * acc + DigitVal(t[i]))
    ELSE [ok |-> TRUE, t |-> "num", v |-> NumVal(acc), m |-> <<>>, next |-> i]

ParseScalar(t, i) ==
  IF i > Len(t) THEN ParseFail
  ELSE IF t[i] = "\"" THEN ScanString(t, i + 1, <<>>)
  ELSE IF IsDigit(t[i])
    THEN IF t[i] = "0" /\ i < Len(t) /\ IsDigit(t[i + 1])
           THEN ParseFail
           ELSE ScanNumber(t, i, 0)
  ELSE IF i + 3 <= Len(t) /\ SubSeq(t, i, i + 3) = <<"n", "u", "l", "l">>
    THEN [ok |-> TRUE, t |-> "null", v |-> NullVal, m |-> <<>>, next |-> i + 4]
  ELSE ParseFail

\* The members of an object, from the member that starts at position i.
\* The key and the value are each scanned once ({... : x \in {e}} evaluates e
\* a single time).
RECURSIVE ParseMembers(_, _, _)
AfterValue(t, acc, key, val) ==
  IF ~val.ok \/ val.next > Len(t) THEN ParseFail
  ELSE IF t[val.next] = ","
    THEN ParseMembers(t, val.next + 1, Append(acc, Member(key.v.s, val.v)))
  ELSE IF t[val.next] = "}"
    THEN [ok |-> TRUE, t |-> "obj", v |-> Undefined,
          m |-> Append(acc, Member(key.v.s, val.v)), next |-> val.next + 1]
  ELSE ParseFail

AfterKey(t, acc, key) ==
  IF ~key.ok \/ key.next > Len(t) \/ t[key.next] # ":" THEN ParseFail
  ELSE CHOOSE out \in {AfterValue(t, acc, key, val) :
                         val \in {ParseScalar(t, key.next + 1)}} : TRUE

ParseMembers(t, i, acc) ==
  IF i > Len(t) \/ t[i] # "\"" THEN ParseFail
  ELSE CHOOSE out \in {AfterKey(t, acc, key) : key \in {ScanString(t, i + 1, <<>>)}} : TRUE

ParseValue(t) ==
  IF t = <<>> THEN ParseFail
  ELSE IF t[1] = "{"
    THEN IF Len(t) >= 2 /\ t[2] = "}"
           THEN [ok |-> TRUE, t |-> "obj", v |-> Undefined, m |-> <<>>, next |-> 3]
           ELSE ParseMembers(t, 2, <<>>)
  ELSE ParseScalar(t, 1)

\* The whole text must be one value: trailing characters are a SyntaxError.
JsonParse(t) ==
  CHOOSE out \in {IF r.ok /\ r.next = Len(t) + 1 THEN r ELSE ParseFail :
                    r \in {ParseValue(t)}} : TRUE

(***************************************************************************)
(* Bounds of the model                                                     *)
(***************************************************************************)
\* Clicks of the button that are followed.
MaxClicks == 2

\* Requests that reach the port from somewhere other than the button.
MaxOther == 3

(***************************************************************************)
(* Program constants                                                       *)
(***************************************************************************)
\* const port = 3001 (server.ts line 4); the client fetches the same port.
port == 3001

\* The literal passed to _.snakeCase (server.ts line 17).
Phrase == <<"S", "e", "r", "v", "e", "r", " ", "d", "a", "t", "a", " ",
            "r", "e", "t", "u", "r", "n", "e", "d", " ",
            "s", "u", "c", "c", "e", "s", "s", "f", "u", "l", "l", "y">>

\* The key of the responseData literal (server.ts line 17) and of the
\* client's data.payload (line 54).
payload == <<"p", "a", "y", "l", "o", "a", "d">>

AllowOrigin == "Access-Control-Allow-Origin"

\* The request of fetch("http://localhost:3001/", {}) (server.ts line 52).
ClientPort == 3001

ClientMethod == "GET"

ClientPath == "/"

\* What else can be asked of the port.
Methods == {"GET", "POST"}

Paths == {"/", "/other"}

Origins == {"http://localhost:3000", "http://elsewhere.example"}

\* Bodies that a process other than this server may answer with on the port.
ForeignBodies ==
  { <<"<", "h", "t", "m", "l", ">">>,
    <<"{", "}">>,
    <<"{", "\"", "p", "a", "y", "l", "o", "a", "d", "\"", ":", "5", "}">>,
    <<"n", "u", "l", "l">> }

VARIABLES
  listening,   \* app.listen has bound the port
  serverLog,   \* lines the server wrote to its console
  reqs,        \* every request issued so far, in order of issue
  clicks,      \* clicks of the button so far
  cur,         \* the request the server is handling, 0 when idle
  spc,         \* the layer of the Express stack that runs next for cur
  res,         \* the response object of cur
  console,     \* what the client wrote to its console, in order
  unhandled    \* clicks whose promise chain ended in an unhandled rejection

webVars == <<listening, serverLog, reqs, clicks, cur, spc, res, console, unhandled>>

\* The working copy of the monorepo and the two remotes (see the section on
\* the embedded repository).
VARIABLES
  ext,       \* history of the external project at its remote
  outer,     \* history of the monorepo at its remote
  cloned,    \* the working copy exists
  known,     \* the newest outer commit the working copy has fetched
  wcOuter,   \* the outer commit checked out in the working copy, 0 before clone
  subInit,   \* the submodule is registered in the working copy's configuration
  subDir,    \* the embedded directory: "absent", "empty" or "populated"
  subRev,    \* the ext commit checked out in the embedded directory, 0 if none
  subFiles,  \* the files in the embedded directory
  lastOp     \* the git command run last

gitVars == <<ext, outer, cloned, known, wcOuter, subInit, subDir, subRev, subFiles, lastOp>>

\* What the TypeScript compiler has established for the two modules that
\* name QueryPayload (see the section on the shared declaration).
VARIABLES
  binding,   \* per importing module: what its import of QueryPayload is bound to
  annot      \* per importing module: how its QueryPayload annotation was checked

tsVars == <<binding, annot>>

vars == <<listening, serverLog, reqs, clicks, cur, spc, res, console, unhandled,
          ext, outer, cloned, known, wcOuter, subInit, subDir, subRev, subFiles, lastOp,
          binding, annot>>

(***************************************************************************)
(* The response object of Express                                          *)
(***************************************************************************)
NoHeaders == {}

\* A new ServerResponse: statusCode 200, nothing set, nothing sent.
NewResponse == [statusCode |-> 200, headers |-> NoHeaders, headersSent |-> FALSE,
                body |-> <<>>]

\* res.setHeader(name, value): replaces the header; it has no effect on what
\* has been sent once the headers have gone out.
SetHeader(r, name, value) ==
  IF r.headersSent THEN r
  ELSE [r EXCEPT !.headers = {h \in r.headers : h[1] # name} \cup {<<name, value>>}]

HasHeader(hs, name, value) == <<name, value>> \in hs

\* res.json(obj): Content-Type is set when absent, the body is
\* JSON.stringify(obj), and the response goes out with res.statusCode.
ResJson(r, obj) ==
  LET typed == IF \E h \in r.headers : h[1] = "Content-Type" THEN r
               ELSE SetHeader(r, "Content-Type", "application/json; charset=utf-8")
  IN [typed EXCEPT !.body = JsonStringify(obj), !.headersSent = TRUE]

\* What goes over the wire for a response object that has been sent.
NoResp == [by |-> "none", status |-> 0, headers |-> NoHeaders, body |-> <<>>]

WireOf(r) == [by |-> "server", status |-> r.statusCode, headers |-> r.headers,
              body |-> r.body]

NoData == ParseFail

NewRequest(from, toPort, method, path, origin) ==
  [from |-> from, port |-> toPort, method |-> method, path |-> path, origin |-> origin,
   st |-> "sent", resp |-> NoResp, data |-> NoData]

Ids == DOMAIN reqs

ClientIds == {i \in Ids : reqs[i].from = "client"}

OtherIds == {i \in Ids : reqs[i].from = "other"}

(***************************************************************************)
(* The server (server.ts lines 1-25)                                       *)
(***************************************************************************)
\* app.listen(port, callback), lines 23-25.
Listen ==
  /\ ~listening
  /\ listening' = TRUE
  /\ serverLog' = Append(serverLog, [text |-> "Example app listening at", port |-> port])
  /\ UNCHANGED <<reqs, clicks, cur, spc, res, console, unhandled>>
  /\ UNCHANGED gitVars
  /\ UNCHANGED tsVars

\* A request arrives at the listening port: Express makes its response object
\* and enters the stack at the first layer.  Node runs one request's
\* synchronous handlers to the end before it takes the next; the response
\* object is dropped once the response has been sent.
ServerReceive(i) ==
  /\ listening
  /\ cur = 0
  /\ i \in Ids
  /\ reqs[i].st = "sent"
  /\ reqs[i].port = port
  /\ cur' = i
  /\ spc' = "middleware"
  /\ res' = NewResponse
  /\ reqs' = [reqs EXCEPT ![i].st = "inServer"]
  /\ UNCHANGED <<listening, serverLog, clicks, console, unhandled>>
  /\ UNCHANGED gitVars
  /\ UNCHANGED tsVars

\* The header the middleware sets for request req; the code does not read
\* the request, a variant allows only the origin of the React app.
CorsHeaderSameOrigin(req, r) ==
  IF req.origin = "http://localhost:3000" THEN SetHeader(r, AllowOrigin, req.origin) ELSE r

CorsHeader(req, r) == SetHeader(r, AllowOrigin, "*")

\* A variant of the middleware mounted for the route's requests only: other
\* requests pass it with nothing set.
CorsMiddlewareRootOnly ==
  /\ cur # 0
  /\ spc = "middleware"
  /\ res' = IF reqs[cur].method = "GET" /\ reqs[cur].path = "/"
              THEN CorsHeader(reqs[cur], res) ELSE res
  /\ spc' = "route"
  /\ UNCHANGED <<listening, serverLog, reqs, clicks, cur, console, unhandled>>
  /\ UNCHANGED gitVars
  /\ UNCHANGED tsVars

\* app.use((_req, res, next) => { res.setHeader(...); next(); }), lines 7-13.
CorsMiddleware ==
  /\ cur # 0
  /\ spc = "middleware"
  /\ res' = CorsHeader(reqs[cur], res)
  /\ spc' = "route"
  /\ UNCHANGED <<listening, serverLog, reqs, clicks, cur, console, unhandled>>
  /\ UNCHANGED gitVars
  /\ UNCHANGED tsVars

\* The responseData literal of lines 16-18, and two variants of it.
ResponseDataUnderData == <<Member(<<"d", "a", "t", "a">>, StrVal(snakeCase(Phrase)))>>

ResponseDataWithExtra ==
  <<Member(payload, StrVal(snakeCase(Phrase))), Member(<<"o", "k">>, NumVal(1))>>

ResponseData == <<Member(payload, StrVal(snakeCase(Phrase)))>>

\* interface QueryPayload { payload: string } for an object's members.
IsQueryPayload(m) == GetProp(m, payload).t = "str"

\* app.get("/", ...) matches GET on the path "/".
MatchesRoot(req) == req.method = "GET" /\ req.path = "/"

\* A variant of the route handler that keeps a count of the requests it has
\* served in module-level state and sends it with the payload.
RootHandlerCounting ==
  /\ cur # 0
  /\ spc = "route"
  /\ MatchesRoot(reqs[cur])
  /\ LET counted == Append(ResponseData,
                           Member(<<"n">>, NumVal(Len(serverLog))))
         sent == ResJson(res, counted)
     IN /\ res' = NewResponse
        /\ reqs' = [reqs EXCEPT ![cur].st = "responded", ![cur].resp = WireOf(sent)]
  /\ serverLog' = Append(serverLog, [text |-> "served", port |-> port])
  /\ cur' = 0
  /\ spc' = "idle"
  /\ UNCHANGED <<listening, clicks, console, unhandled>>
  /\ UNCHANGED gitVars
  /\ UNCHANGED tsVars

\* app.get("/", (_req, res) => { ...; res.json(responseData); }), lines 15-21.
RootHandler ==
  /\ cur # 0
  /\ spc = "route"
  /\ MatchesRoot(reqs[cur])
  /\ LET sent == ResJson(res, ResponseData)
     IN /\ res' = NewResponse
        /\ reqs' = [reqs EXCEPT ![cur].st = "responded", ![cur].resp = WireOf(sent)]
  /\ cur' = 0
  /\ spc' = "idle"
  /\ UNCHANGED <<listening, serverLog, clicks, console, unhandled>>
  /\ UNCHANGED gitVars
  /\ UNCHANGED tsVars

\* The body of Express's answer to a request no route matches.
NotFoundBody == <<"<", "p", "r", "e", ">", "C", "a", "n", "n", "o", "t", "<", "/", "p", "r", "e", ">">>

\* No route matches: Express's final handler answers 404 with an HTML page,
\* keeping the headers set so far.
FinalHandler ==
  /\ cur # 0
  /\ spc = "route"
  /\ ~MatchesRoot(reqs[cur])
  /\ LET typed == SetHeader(res, "Content-Type", "text/html; charset=utf-8")
         sent == [typed EXCEPT !.statusCode = 404, !.body = NotFoundBody,
                               !.headersSent = TRUE]
     IN /\ res' = NewResponse
        /\ reqs' = [reqs EXCEPT ![cur].st = "responded", ![cur].resp = WireOf(sent)]
  /\ cur' = 0
  /\ spc' = "idle"
  /\ UNCHANGED <<listening, serverLog, clicks, console, unhandled>>
  /\ UNCHANGED gitVars
  /\ UNCHANGED tsVars

(***************************************************************************)
(* The network between the client and the port                             *)
(***************************************************************************)
\* A request that does not come from the button.
OtherRequest(method, path, origin) ==
  /\ Cardinality(OtherIds) < MaxOther
  /\ reqs' = Append(reqs, NewRequest("other", port, method, path, origin))
  /\ UNCHANGED <<listening, serverLog, clicks, cur, spc, res, console, unhandled>>
  /\ UNCHANGED gitVars
  /\ UNCHANGED tsVars

\* While this server has not bound the port, another process may answer on it.
ForeignRespond(i, body) ==
  /\ ~listening
  /\ i \in ClientIds
  /\ reqs[i].st = "sent"
  /\ reqs' = [reqs EXCEPT ![i].st = "responded",
                          ![i].resp = [by |-> "foreign", status |-> 200,
                                       headers |-> NoHeaders, body |-> body]]
  /\ UNCHANGED <<listening, serverLog, clicks, cur, spc, res, console, unhandled>>
  /\ UNCHANGED gitVars
  /\ UNCHANGED tsVars

(***************************************************************************)
(* The client (server.ts lines 27-65): the button's onClick, lines 51-55   *)
(***************************************************************************)
\* A rejection of the chain fetch(...).then(...).then(...): neither then has
\* a second argument and no catch follows, so the rejection passes through
\* both and is reported as unhandled.  A variant catches it and fetches again.
RejectedAndRetried(i) ==
  /\ reqs' = [reqs EXCEPT ![i].st = "sent", ![i].resp = NoResp]
  /\ UNCHANGED <<console, unhandled>>

Rejected(i) ==
  /\ reqs' = [reqs EXCEPT ![i].st = "rejected"]
  /\ unhandled' = unhandled \cup {i}
  /\ UNCHANGED console

\* A variant of the click handler that ignores a click while a request is
\* outstanding.
ClickDeduplicated ==
  /\ clicks < MaxClicks
  /\ clicks' = clicks + 1
  /\ reqs' = IF \E i \in ClientIds : reqs[i].st \in {"sent", "inServer", "responded", "parsing", "parsed"}
               THEN reqs
               ELSE Append(reqs, NewRequest("client", ClientPort, ClientMethod, ClientPath,
                                            "http://localhost:3000"))
  /\ UNCHANGED <<listening, serverLog, cur, spc, res, console, unhandled>>
  /\ UNCHANGED gitVars
  /\ UNCHANGED tsVars

\* onClick: fetch("http://localhost:3001/", {}) issues the request and
\* returns at once; the two then-callbacks run later.
Click ==
  /\ clicks < MaxClicks
  /\ clicks' = clicks + 1
  /\ reqs' = Append(reqs, NewRequest("client", ClientPort, ClientMethod, ClientPath,
                                     "http://localhost:3000"))
  /\ UNCHANGED <<listening, serverLog, cur, spc, res, console, unhandled>>
  /\ UNCHANGED gitVars
  /\ UNCHANGED tsVars

\* The request or its response is lost, or nothing accepts the connection:
\* fetch rejects.
NetFail(i) ==
  /\ i \in ClientIds
  /\ reqs[i].st \in {"sent", "responded"}
  /\ Rejected(i)
  /\ UNCHANGED <<listening, serverLog, clicks, cur, spc, res>>
  /\ UNCHANGED gitVars
  /\ UNCHANGED tsVars

\* A variant that hands responses to the callbacks in the order of the
\* clicks: a response waits while an earlier click is outstanding.
FetchFulfilledInOrder(i) ==
  /\ i \in ClientIds
  /\ reqs[i].st = "responded"
  /\ \A j \in ClientIds :
       j < i => reqs[j].st \notin {"sent", "inServer", "responded", "parsing", "parsed"}
  /\ reqs' = [reqs EXCEPT ![i].st = "parsing"]
  /\ UNCHANGED <<listening, serverLog, clicks, cur, spc, res, console, unhandled>>
  /\ UNCHANGED gitVars
  /\ UNCHANGED tsVars

\* The response arrives, whatever its status: fetch fulfils and
\* (response) => response.json() starts reading the body (line 53).
FetchFulfilled(i) ==
  /\ i \in ClientIds
  /\ reqs[i].st = "responded"
  /\ reqs' = [reqs EXCEPT ![i].st = "parsing"]
  /\ UNCHANGED <<listening, serverLog, clicks, cur, spc, res, console, unhandled>>
  /\ UNCHANGED gitVars
  /\ UNCHANGED tsVars

\* response.json() settles: fulfilled with the parsed body, or rejected with
\* a SyntaxError.
JsonSettled(i) ==
  /\ i \in ClientIds
  /\ reqs[i].st = "parsing"
  /\ \E r \in {JsonParse(reqs[i].resp.body)} :
       IF r.ok
         THEN /\ reqs' = [reqs EXCEPT ![i].st = "parsed", ![i].data = r]
              /\ UNCHANGED <<console, unhandled>>
         ELSE Rejected(i)
  /\ UNCHANGED <<listening, serverLog, clicks, cur, spc, res>>
  /\ UNCHANGED gitVars
  /\ UNCHANGED tsVars

\* data.payload for the parsed value data: a property of an object, undefined
\* on a string or a number.  A variant reads data.data.
PayloadOfData(data) ==
  IF data.t = "obj" THEN GetProp(data.m, <<"d", "a", "t", "a">>) ELSE Undefined

PayloadOf(data) == IF data.t = "obj" THEN GetProp(data.m, payload) ELSE Undefined

\* (data: QueryPayload) => console.log(data.payload), line 54.  The type
\* annotation is erased: nothing is checked at run time.  Reading a property
\* of null throws a TypeError, which rejects the chain.
LogPayload(i) ==
  /\ i \in ClientIds
  /\ reqs[i].st = "parsed"
  /\ IF reqs[i].data.t = "null"
       THEN Rejected(i)
       ELSE /\ console' = Append(console, [id |-> i, val |-> PayloadOf(reqs[i].data)])
            /\ reqs' = [reqs EXCEPT ![i].st = "logged"]
            /\ UNCHANGED unhandled
  /\ UNCHANGED <<listening, serverLog, clicks, cur, spc, res>>
  /\ UNCHANGED gitVars
  /\ UNCHANGED tsVars

(***************************************************************************)
(* The embedded repository (README.md, "Add a Git Submodule").             *)
(* The monorepo (outer) records react-dark-mode (ext) as a submodule: the  *)
(* outer tree holds .gitmodules and, at the embedded path, a link to one   *)
(* commit of ext.  The commands are git's; they are modelled as the README *)
(* and git's manual describe them, for one working copy of the outer       *)
(* repository and the two remotes.                                         *)
(***************************************************************************)
\* Commits followed in the history of ext and of outer.
MaxExt == 3

MaxOuter == 3

\* .gitmodules, README.md lines 547-551.
SubPath == "packages/simple-react-app/src/react-dark-mode"

SubUrl == "git@github.com:alexeagleson/react-dark-mode.git"

\* A file of the monorepo itself, and the file of ext the README edits.
OuterFile == "packages/simple-react-app/src/App.tsx"

SubFile == "packages/simple-react-app/src/react-dark-mode/src/DarkMode.css"

\* Paths inside the embedded directory.
InsideSub == {SubFile}

NoFiles == <<"none", 0>>

\* A commit of ext: the content of its tracked files.
ExtCommit(who, n) == [files |-> <<who, n>>]

\* The commit of outer that follows prev: its own files change, the link at the
\* embedded path points at ext commit rev.
OuterCommitByValue(prev, n, rev, files) ==
  [gitmodules |-> prev.gitmodules,
   links |-> {},
   blobs |-> {<<OuterFile, n>>} \cup (IF rev # 0 THEN {<<SubFile, files>>} ELSE {})]

OuterCommit(prev, n, rev, files) ==
  [gitmodules |-> prev.gitmodules,
   links |-> IF rev # 0 THEN {<<SubPath, rev>>} ELSE prev.links,
   blobs |-> {<<OuterFile, n>>}]

\* The outer commit made after "git submodule add" (README lines 482-488,
\* 545-557): .gitmodules maps the path to the URL, the path links to ext.
FirstOuterCommit ==
  [gitmodules |-> {<<SubPath, SubUrl>>}, links |-> {<<SubPath, 1>>},
   blobs |-> {<<OuterFile, 1>>}]

\* The ext commit that outer commit c pins at the embedded path, 0 if none.
Pin(c) == IF \E l \in c.links : l[1] = SubPath
            THEN (CHOOSE l \in c.links : l[1] = SubPath)[2]
            ELSE 0

\* Checking out ext commit rev in the embedded directory.
CheckoutSub(rev) ==
  /\ subRev' = rev
  /\ subFiles' = ext[rev].files
  /\ subDir' = "populated"

\* git clone, with or without --recurse-submodules (README lines 591, 599-607).
CloneAlwaysRecursive(recurse) ==
  /\ ~cloned
  /\ cloned' = TRUE
  /\ known' = Len(outer)
  /\ wcOuter' = Len(outer)
  /\ subInit' = TRUE
  /\ CheckoutSub(Pin(outer[Len(outer)]))
  /\ lastOp' = IF recurse THEN "clone --recurse-submodules" ELSE "clone"
  /\ UNCHANGED <<ext, outer>>
  /\ UNCHANGED webVars
  /\ UNCHANGED tsVars

Clone(recurse) ==
  /\ ~cloned
  /\ cloned' = TRUE
  /\ known' = Len(outer)
  /\ wcOuter' = Len(outer)
  /\ IF recurse /\ Pin(outer[Len(outer)]) # 0
       THEN /\ subInit' = TRUE
            /\ CheckoutSub(Pin(outer[Len(outer)]))
       ELSE /\ subInit' = FALSE
            /\ subDir' = "empty"
            /\ subRev' = 0
            /\ subFiles' = NoFiles
  /\ lastOp' = IF recurse THEN "clone --recurse-submodules" ELSE "clone"
  /\ UNCHANGED <<ext, outer>>
  /\ UNCHANGED webVars
  /\ UNCHANGED tsVars

\* git fetch in the monorepo root (README line 583).
Fetch ==
  /\ cloned
  /\ known' = Len(outer)
  /\ lastOp' = "fetch"
  /\ UNCHANGED <<ext, outer, cloned, wcOuter, subInit, subDir, subRev, subFiles>>
  /\ UNCHANGED webVars
  /\ UNCHANGED tsVars

\* git pull, with or without --recurse-submodules (README lines 583, 599-603).
PullAlwaysRecursive(recurse) ==
  /\ cloned
  /\ known' = Len(outer)
  /\ wcOuter' = Len(outer)
  /\ IF subInit /\ Pin(outer[Len(outer)]) # 0
       THEN CheckoutSub(Pin(outer[Len(outer)]))
       ELSE UNCHANGED <<subDir, subRev, subFiles>>
  /\ lastOp' = IF recurse THEN "pull --recurse-submodules" ELSE "pull"
  /\ UNCHANGED <<ext, outer, cloned, subInit>>
  /\ UNCHANGED webVars
  /\ UNCHANGED tsVars

Pull(recurse) ==
  /\ cloned
  /\ known' = Len(outer)
  /\ wcOuter' = Len(outer)
  /\ IF recurse /\ subInit /\ Pin(outer[Len(outer)]) # 0
       THEN CheckoutSub(Pin(outer[Len(outer)]))
       ELSE UNCHANGED <<subDir, subRev, subFiles>>
  /\ lastOp' = IF recurse THEN "pull --recurse-submodules" ELSE "pull"
  /\ UNCHANGED <<ext, outer, cloned, subInit>>
  /\ UNCHANGED webVars
  /\ UNCHANGED tsVars

\* git submodule init (README lines 591-597): registers the submodules that
\* .gitmodules of the checked-out commit names.
SubmoduleInit ==
  /\ cloned
  /\ \E g \in outer[wcOuter].gitmodules : g[1] = SubPath
  /\ subInit' = TRUE
  /\ lastOp' = "submodule init"
  /\ UNCHANGED <<ext, outer, cloned, known, wcOuter, subDir, subRev, subFiles>>
  /\ UNCHANGED webVars
  /\ UNCHANGED tsVars

\* git submodule update (README lines 583-589): checks out, in each
\* registered submodule, the commit the checked-out outer commit pins.
SubmoduleUpdate ==
  /\ cloned
  /\ subInit
  /\ Pin(outer[wcOuter]) # 0
  /\ CheckoutSub(Pin(outer[wcOuter]))
  /\ lastOp' = "submodule update"
  /\ UNCHANGED <<ext, outer, cloned, known, wcOuter, subInit>>
  /\ UNCHANGED webVars
  /\ UNCHANGED tsVars

\* An edit inside the embedded directory, committed and pushed from there
\* (README lines 563-581): the commit goes to ext.
CommitInsideToOuter ==
  /\ cloned
  /\ subDir = "populated"
  /\ subRev = Len(ext)
  /\ Len(ext) < MaxExt
  /\ Len(outer) < MaxOuter
  /\ outer' = Append(outer, OuterCommitByValue(outer[Len(outer)], Len(outer) + 1, subRev,
                                               <<"me", Len(ext) + 1>>))
  /\ subFiles' = <<"me", Len(ext) + 1>>
  /\ lastOp' = "commit inside"
  /\ UNCHANGED <<ext, cloned, known, wcOuter, subInit, subDir, subRev>>
  /\ UNCHANGED webVars
  /\ UNCHANGED tsVars

CommitInside ==
  /\ cloned
  /\ subDir = "populated"
  /\ subRev = Len(ext)
  /\ Len(ext) < MaxExt
  /\ ext' = Append(ext, ExtCommit("me", Len(ext) + 1))
  /\ subRev' = Len(ext) + 1
  /\ subFiles' = <<"me", Len(ext) + 1>>
  /\ lastOp' = "commit inside"
  /\ UNCHANGED <<outer, cloned, known, wcOuter, subInit, subDir>>
  /\ UNCHANGED webVars
  /\ UNCHANGED tsVars

\* An edit outside the embedded directory, committed and pushed from the
\* monorepo root (README lines 555-559): the commit goes to outer and
\* records the embedded directory as a link to the commit checked out there.
CommitOutside ==
  /\ cloned
  /\ wcOuter = Len(outer)
  /\ Len(outer) < MaxOuter
  /\ outer' = Append(outer, OuterCommit(outer[wcOuter], Len(outer) + 1, subRev, subFiles))
  /\ wcOuter' = Len(outer) + 1
  /\ known' = Len(outer) + 1
  /\ lastOp' = "commit outside"
  /\ UNCHANGED <<ext, cloned, subInit, subDir, subRev, subFiles>>
  /\ UNCHANGED webVars
  /\ UNCHANGED tsVars

\* Other contributors push to ext (README line 583) ...
OthersCommitExt ==
  /\ Len(ext) < MaxExt
  /\ ext' = Append(ext, ExtCommit("others", Len(ext) + 1))
  /\ UNCHANGED <<outer, cloned, known, wcOuter, subInit, subDir, subRev, subFiles, lastOp>>
  /\ UNCHANGED webVars
  /\ UNCHANGED tsVars

\* ... and to outer, moving its link to an ext commit.
OthersCommitOuter(rev) ==
  /\ Len(outer) < MaxOuter
  /\ rev \in 1..Len(ext)
  /\ outer' = Append(outer, OuterCommit(outer[Len(outer)], Len(outer) + 1, rev, ext[rev].files))
  /\ UNCHANGED <<ext, cloned, known, wcOuter, subInit, subDir, subRev, subFiles, lastOp>>
  /\ UNCHANGED webVars
  /\ UNCHANGED tsVars

(***************************************************************************)
(* The shared declaration: how the compiler binds the name QueryPayload in *)
(* the two modules that import it (server.ts lines 5 and 31) and checks    *)
(* the annotations that use it (lines 16 and 54).  Types are erased when   *)
(* the code is emitted: nothing here is read by the running program.       *)
(***************************************************************************)
\* The modules, by the specifier the workspace resolves to them.
ServerModule == "simple-express-server/server"

ClientModule == "simple-react-app/src/App"

SharedModule == "@my-namespace/simple-shared-data"

\* The modules that import the name.
Importers == {ServerModule, ClientModule}

TypeName == "QueryPayload"

\* import { QueryPayload } from "<specifier>": line 5 in the server's
\* module, line 31 in the client's.
ImportSpecifier(m) == IF m = ServerModule THEN SharedModule ELSE ServerModule

NoDecl == [module |-> "none", name |-> "none", fields |-> {}]

\* The declaration the shared package publishes: the record with the single
\* text field payload.
SharedDeclaration ==
  [module |-> SharedModule, name |-> TypeName, fields |-> {<<payload, "str">>}]

\* The exported declarations of each module.  Lines 1-25 import the name and
\* have no export statement; lines 27-65 export the component as default.
Exports(m) ==
  CASE m = SharedModule -> {SharedDeclaration}
    [] m = ServerModule -> {}
    [] OTHER -> {[module |-> ClientModule, name |-> "default", fields |-> {}]}

Unbound == [st |-> "unchecked", decl |-> NoDecl]

\* A named import is bound to the export of that name of the module the
\* specifier resolves to; a name the module does not export is an error
\* ("declares 'QueryPayload' locally, but it is not exported") and the local
\* name then has the error type.
ResolveImport(m) ==
  /\ m \in Importers
  /\ binding[m].st = "unchecked"
  /\ LET found == {d \in Exports(ImportSpecifier(m)) : d.name = TypeName}
     IN binding' = [binding EXCEPT ![m] =
                      IF found # {}
                        THEN [st |-> "bound", decl |-> CHOOSE d \in found : TRUE]
                        ELSE [st |-> "notExported", decl |-> NoDecl]]
  /\ UNCHANGED annot
  /\ UNCHANGED webVars
  /\ UNCHANGED gitVars

\* The type of an object literal: its members' names and types.
LiteralType(m) == {<<m[i].k, m[i].v.t>> : i \in DOMAIN m}

\* The annotation of line 16 checks the literal of lines 16-18 against the
\* declaration (every field present with its type, no member in excess);
\* the annotation of line 54 checks the property read data.payload.  Against
\* the error type nothing is checked.
CheckAnnotation(m) ==
  /\ m \in Importers
  /\ binding[m].st # "unchecked"
  /\ annot[m] = "unchecked"
  /\ annot' = [annot EXCEPT ![m] =
                 IF binding[m].st # "bound" THEN "any"
                 ELSE IF m = ServerModule
                   THEN IF LiteralType(ResponseData) = binding[m].decl.fields
                          THEN "ok" ELSE "error"
                 ELSE IF \E f \in binding[m].decl.fields : f[1] = payload
                   THEN "ok" ELSE "error"]
  /\ UNCHANGED binding
  /\ UNCHANGED webVars
  /\ UNCHANGED gitVars

(***************************************************************************)
(* Specifications                                                          *)
(***************************************************************************)
\* The server is constructed but app.listen has not run, nothing has been
\* clicked; the monorepo has been pushed with the submodule added and
\* nobody has cloned it yet.
Init ==
  /\ listening = FALSE
  /\ serverLog = <<>>
  /\ reqs = <<>>
  /\ clicks = 0
  /\ cur = 0
  /\ spc = "idle"
  /\ res = NewResponse
  /\ console = <<>>
  /\ unhandled = {}
  /\ ext = <<ExtCommit("others", 1)>>
  /\ outer = <<FirstOuterCommit>>
  /\ cloned = FALSE
  /\ known = 0
  /\ wcOuter = 0
  /\ subInit = FALSE
  /\ subDir = "absent"
  /\ subRev = 0
  /\ subFiles = NoFiles
  /\ lastOp = "none"
  /\ binding = [m \in Importers |-> Unbound]
  /\ annot = [m \in Importers |-> "unchecked"]

\* The button, the network and the server: every request comes from a click.
Next ==
  \/ Listen
  \/ \E i \in Ids : ServerReceive(i)
  \/ CorsMiddleware
  \/ RootHandler
  \/ \E i \in Ids, b \in ForeignBodies : ForeignRespond(i, b)
  \/ Click
  \/ \E i \in Ids : NetFail(i)
  \/ \E i \in Ids : FetchFulfilled(i)
  \/ \E i \in Ids : JsonSettled(i)
  \/ \E i \in Ids : LogPayload(i)

Spec == Init /\ [][Next]_vars

\* The browser's event loop runs every callback that is ready.
ClientStep(i) == FetchFulfilled(i) \/ JsonSettled(i) \/ LogPayload(i)

FairSpec == Spec /\ \A i \in 1..MaxClicks : WF_vars(ClientStep(i))

\* The server under requests of any method, path and origin.
ServerNext ==
  \/ Listen
  \/ \E m \in Methods, p \in Paths, o \in Origins : OtherRequest(m, p, o)
  \/ \E i \in Ids : ServerReceive(i)
  \/ CorsMiddleware
  \/ RootHandler
  \/ FinalHandler

ServerSpec == Init /\ [][ServerNext]_vars

\* The server under requests of any method and path from the React app's
\* origin.  Node runs the synchronous middleware and handlers of a request
\* it has taken to the end.
RouteNext ==
  \/ Listen
  \/ \E m \in Methods, p \in Paths : OtherRequest(m, p, "http://localhost:3000")
  \/ \E i \in Ids : ServerReceive(i)
  \/ CorsMiddleware
  \/ RootHandler
  \/ FinalHandler

ServerFairSpec ==
  /\ Init
  /\ [][RouteNext]_vars
  /\ WF_vars(CorsMiddleware)
  /\ WF_vars(RootHandler)
  /\ WF_vars(FinalHandler)

\* The git commands and the other contributors.
GitNext ==
  \/ \E r \in BOOLEAN : Clone(r)
  \/ Fetch
  \/ \E r \in BOOLEAN : Pull(r)
  \/ SubmoduleInit
  \/ SubmoduleUpdate
  \/ CommitInside
  \/ CommitOutside
  \/ OthersCommitExt
  \/ \E rev \in 1..MaxExt : OthersCommitOuter(rev)

GitSpec == Init /\ [][GitNext]_vars

\* The compiler checking the two modules, beside the running program.
TypeNext ==
  \/ \E m \in Importers : ResolveImport(m)
  \/ \E m \in Importers : CheckAnnotation(m)
  \/ Listen
  \/ \E i \in Ids : ServerReceive(i)
  \/ CorsMiddleware
  \/ RootHandler
  \/ \E i \in Ids, b \in ForeignBodies : ForeignRespond(i, b)
  \/ Click
  \/ \E i \in Ids : NetFail(i)
  \/ \E i \in Ids : FetchFulfilled(i)
  \/ \E i \in Ids : JsonSettled(i)
  \/ \E i \in Ids : LogPayload(i)

TypeSpec == Init /\ [][TypeNext]_vars

(***************************************************************************)
(* Properties of the server                                                *)
(***************************************************************************)
ExpectedPayload ==
  <<"s", "e", "r", "v", "e", "r", "_", "d", "a", "t", "a", "_",
    "r", "e", "t", "u", "r", "n", "e", "d", "_",
    "s", "u", "c", "c", "e", "s", "s", "f", "u", "l", "l", "y">>

ExpectedBody ==
  <<"{", "\"", "p", "a", "y", "l", "o", "a", "d", "\"", ":", "\"">>
  \o ExpectedPayload \o <<"\"", "}">>

\* The requests for GET "/" that have been answered.
AnsweredRoot ==
  {i \in Ids : reqs[i].method = "GET" /\ reqs[i].path = "/" /\ reqs[i].st = "responded"}

\* C1: every answer to GET "/", whatever was requested before it, has status
\* 200 and the body {"payload":"server_data_returned_successfully"}, which
\* parses as an object with exactly one member, payload, a string.
C1_RootAnswer ==
  \A i \in AnsweredRoot :
    /\ reqs[i].resp.by = "server"
    /\ reqs[i].resp.status = 200
    /\ reqs[i].resp.body = ExpectedBody
    /\ LET r == JsonParse(reqs[i].resp.body)
       IN /\ r.ok
          /\ r.t = "obj"
          /\ Len(r.m) = 1
          /\ r.m[1].k = payload
          /\ r.m[1].v.t = "str"

\* GET "/" has been answered after a request that got the 404 page and
\* after an earlier GET "/".
C1_Witness ==
  \E i, j, k \in Ids :
    /\ i < k /\ j < k /\ i # j
    /\ reqs[i].st = "responded" /\ reqs[i].resp.status = 404
    /\ j \in AnsweredRoot
    /\ k \in AnsweredRoot

RECURSIVE Without(_, _)
Without(s, c) ==
  IF s = <<>> THEN <<>>
  ELSE IF Head(s) = c THEN Without(Tail(s), c)
  ELSE <<Head(s)>> \o Without(Tail(s), c)

\* C2: the payload sent is server_data_returned_successfully: the words of
\* the phrase in their order, lower-cased, joined by single underscores,
\* with no underscore at either end.
C2_PayloadIsSnakeCase ==
  \A i \in AnsweredRoot :
    LET r == JsonParse(reqs[i].resp.body)
        v == GetProp(r.m, payload)
    IN /\ r.ok
       /\ v = StrVal(ExpectedPayload)
       /\ Without(v.s, "_") = toLowerCase(Without(Phrase, " "))
       /\ Len(v.s) = Len(Phrase)
       /\ \A n \in DOMAIN v.s : (v.s[n] = "_") = (Phrase[n] = " ")
       /\ v.s[1] # "_" /\ v.s[Len(v.s)] # "_"
       /\ \A n \in 1..(Len(v.s) - 1) : ~(v.s[n] = "_" /\ v.s[n + 1] = "_")

\* A request from another origin has been answered on GET "/".
C2_Witness ==
  \E i \in AnsweredRoot :
    /\ reqs[i].origin = "http://elsewhere.example"
    /\ reqs[i].resp.body # <<>>

\* C3: every answer to GET "/" carries Access-Control-Allow-Origin: *,
\* whatever the origin of the request, and the header is on the response
\* object, not yet sent, when the route handler is about to run.
C3_AllowAnyOrigin ==
  /\ \A i \in AnsweredRoot : HasHeader(reqs[i].resp.headers, AllowOrigin, "*")
  /\ (cur # 0 /\ spc = "route") =>
       (HasHeader(res.headers, AllowOrigin, "*") /\ ~res.headersSent)

\* GET "/" has been answered for requests of two different origins.
C3_Witness ==
  \E i, j \in AnsweredRoot :
    /\ reqs[i].origin # reqs[j].origin
    /\ HasHeader(reqs[i].resp.headers, AllowOrigin, "*")
    /\ HasHeader(reqs[j].resp.headers, AllowOrigin, "*")

\* The requests the server has answered.
Answered == {i \in Ids : reqs[i].st = "responded" /\ reqs[i].resp.by = "server"}

\* C13 (step): every request enters the stack with a new response object at
\* the first layer, no step of handling a request changes what the module
\* keeps (that the port is bound, what was written at start-up), and the
\* body sent for GET "/" is the data as built from the phrase in that step.
C13_HandlingStep ==
  /\ (cur = 0 /\ cur' # 0) => (res' = NewResponse /\ spc' = "middleware")
  /\ (cur # 0 \/ cur' # 0) => UNCHANGED <<listening, serverLog>>
  /\ (cur # 0 /\ cur' = 0) => (res' = NewResponse /\ spc' = "idle")
  /\ (cur # 0 /\ cur' = 0 /\ MatchesRoot(reqs[cur])) =>
       reqs'[cur].resp.body = JsonStringify(ResponseData)

\* C13: the server keeps nothing from one request to the next: the answer
\* to a request depends on its method and path alone, whatever the number
\* and order of the requests before it, and the data sent for GET "/" is
\* built anew from the fixed phrase each time.
C13_Stateless ==
  /\ [](\A i, j \in Answered :
          (reqs[i].method = reqs[j].method /\ reqs[i].path = reqs[j].path)
            => reqs[i].resp = reqs[j].resp)
  /\ [](cur = 0 => (res = NewResponse /\ spc = "idle"))
  /\ [](Len(serverLog) = (IF listening THEN 1 ELSE 0))
  /\ [][C13_HandlingStep]_vars

\* GET "/" was answered, then a POST, then GET "/" again for another
\* origin, with the same answer as the first.
C13_Witness ==
  \E i, j, k \in Answered :
    /\ i < k /\ k < j
    /\ MatchesRoot(reqs[i]) /\ MatchesRoot(reqs[j])
    /\ reqs[k].method = "POST"
    /\ reqs[i].origin # reqs[j].origin
    /\ reqs[i].resp = reqs[j].resp

\* C14 (step): every request the server takes enters the stack at the
\* middleware and leaves the server only answered; the middleware sets the
\* header, sends nothing and hands the same request on to the routes; a
\* response goes out only from the routes, with the header already set.
C14_MiddlewareStep ==
  /\ (cur = 0 /\ cur' # 0) => spc' = "middleware"
  /\ (cur # 0 /\ cur' # cur) => (cur' = 0 /\ reqs'[cur].st = "responded")
  /\ (spc = "middleware" /\ spc' # "middleware") =>
       /\ spc' = "route"
       /\ cur' = cur
       /\ reqs' = reqs
       /\ ~res'.headersSent
       /\ HasHeader(res'.headers, AllowOrigin, "*")
  /\ \A i \in Ids :
       (reqs[i].st # "responded" /\ reqs'[i].st = "responded") =>
         /\ cur = i
         /\ spc = "route"
         /\ HasHeader(res.headers, AllowOrigin, "*")

\* C14 (answers): every answer carries the header; GET "/" is answered by
\* the route handler, any other request by the 404 page, not by the payload.
C14_AnsweredWithHeader ==
  \A i \in Answered :
    /\ HasHeader(reqs[i].resp.headers, AllowOrigin, "*")
    /\ MatchesRoot(reqs[i]) =>
         (reqs[i].resp.status = 200 /\ reqs[i].resp.body = ExpectedBody)
    /\ ~MatchesRoot(reqs[i]) =>
         (reqs[i].resp.status = 404 /\ reqs[i].resp.body = NotFoundBody)

\* C14: the middleware runs for every request, whatever its path and method,
\* before any route, and always passes control on: the handling of a request
\* the server has taken always comes to its end, with the request answered,
\* GET "/" by the route handler, and the answer to a request no route
\* matches still carries Access-Control-Allow-Origin: *.
C14_MiddlewareAlwaysRuns ==
  /\ [][C14_MiddlewareStep]_vars
  /\ []C14_AnsweredWithHeader
  /\ (cur # 0) ~> (cur = 0)

\* A POST to "/" and a GET of another path got the 404 page with the header,
\* and GET "/" got the payload.
C14_Witness ==
  \E i, j, k \in Answered :
    /\ reqs[i].method = "POST" /\ reqs[i].path = "/"
    /\ reqs[j].method = "GET" /\ reqs[j].path = "/other"
    /\ reqs[i].resp.status = 404 /\ reqs[j].resp.status = 404
    /\ HasHeader(reqs[i].resp.headers, AllowOrigin, "*")
    /\ HasHeader(reqs[j].resp.headers, AllowOrigin, "*")
    /\ MatchesRoot(reqs[k]) /\ reqs[k].resp.status = 200

(***************************************************************************)
(* Properties of the client                                                *)
(***************************************************************************)
Outstanding(i) == reqs[i].st \in {"sent", "inServer", "responded", "parsing", "parsed"}

\* The console entries written for click i.
Logged(i) == {n \in DOMAIN console : console[n].id = i}

\* C4: what the server builds for the body has the shape QueryPayload, and
\* when the answer to a click came from the server the value the client reads
\* as data.payload is a string, never undefined.
C4_SharedShape ==
  /\ IsQueryPayload(ResponseData)
  /\ \A i \in ClientIds :
       reqs[i].resp.by = "server" =>
         /\ JsonParse(reqs[i].resp.body).ok
         /\ IsQueryPayload(JsonParse(reqs[i].resp.body).m)
         /\ reqs[i].st \in {"parsed", "logged"} =>
              /\ reqs[i].data.t = "obj"
              /\ IsQueryPayload(reqs[i].data.m)
              /\ PayloadOf(reqs[i].data).t = "str"
         /\ \A n \in Logged(i) : console[n].val.t = "str"

\* A click was answered by the server and its payload logged, and another
\* click, answered by something else, logged a value that is not a string.
C4_Witness ==
  \E i, j \in ClientIds :
    /\ reqs[i].resp.by = "server" /\ reqs[i].st = "logged"
    /\ \E n \in Logged(i) : console[n].val.t = "str"
    /\ reqs[j].resp.by = "foreign" /\ reqs[j].st = "logged"
    /\ \E n \in Logged(j) : console[n].val.t # "str"

\* C5 (what is logged): a console entry exists only for a click whose
\* response has arrived and been parsed, there is one entry for such a click,
\* and it is the payload member of the body that was sent.
C5_LogsWhatWasSent ==
  /\ \A n \in DOMAIN console :
       /\ console[n].id \in ClientIds
       /\ reqs[console[n].id].st = "logged"
       /\ reqs[console[n].id].method = "GET"
       /\ reqs[console[n].id].path = "/"
       /\ reqs[console[n].id].port = port
       /\ LET r == JsonParse(reqs[console[n].id].resp.body)
          IN r.ok /\ r.t = "obj" /\ console[n].val = GetProp(r.m, payload)
       /\ reqs[console[n].id].resp.by = "server" =>
            console[n].val = StrVal(ExpectedPayload)
  /\ \A i \in ClientIds :
       Cardinality(Logged(i)) = (IF reqs[i].st = "logged" THEN 1 ELSE 0)

\* C5: on each click the client requests GET / of the server's port, and
\* once the server's response to a click has arrived the client eventually
\* logs the payload the server sent; it logs nothing for a click earlier.
C5_ClickLogsPayload ==
  /\ []C5_LogsWhatWasSent
  /\ \A i \in 1..MaxClicks :
       (i \in ClientIds /\ reqs[i].st = "parsing" /\ reqs[i].resp.by = "server")
         ~> (/\ i \in ClientIds
             /\ reqs[i].st = "logged"
             /\ \E n \in Logged(i) : console[n].val = StrVal(ExpectedPayload))

\* Two clicks have both been answered by the server and logged.
C5_Witness ==
  /\ Len(console) = 2
  /\ console[1].id # console[2].id
  /\ \A n \in DOMAIN console :
       /\ reqs[console[n].id].resp.by = "server"
       /\ console[n].val = StrVal(ExpectedPayload)

\* C6 (state): a click whose chain was rejected is reported as unhandled and
\* has logged nothing.
C6_RejectedState ==
  /\ unhandled = {i \in ClientIds : reqs[i].st = "rejected"}
  /\ \A i \in unhandled : Logged(i) = {}

\* C6 (step): a lost request or response, and a body that does not parse,
\* reject the chain; the step that rejects click i changes nothing else, and
\* a rejected click is never sent again.
C6_RejectedStep ==
  \A i \in Ids :
    /\ (reqs[i].st \in {"sent", "responded"} /\ reqs'[i].st \notin {reqs[i].st, "rejected"})
         => reqs'[i].st \in {"inServer", "responded", "parsing"}
    /\ (reqs[i].st = "parsing" /\ ~JsonParse(reqs[i].resp.body).ok /\ reqs'[i] # reqs[i])
         => reqs'[i].st = "rejected"
    /\ (reqs[i].st # "rejected" /\ reqs'[i].st = "rejected")
         => /\ console' = console
            /\ clicks' = clicks
            /\ Len(reqs') = Len(reqs)
            /\ \A j \in Ids \ {i} : reqs'[j] = reqs[j]
            /\ unhandled' = unhandled \cup {i}
            /\ UNCHANGED <<listening, serverLog, cur, spc, res>>
    /\ reqs[i].st = "rejected" => reqs'[i] = reqs[i]

\* C6: a failed fetch or an unparsable response ends as an unhandled
\* rejection: nothing is logged for the click, nothing is sent again, and the
\* other requests and the rest of the client are unaffected.
C6_FailureIsUnhandled == []C6_RejectedState /\ [][C6_RejectedStep]_vars

\* One click was rejected because its body did not parse, another because
\* its request was lost.
C6_Witness ==
  \E i, j \in ClientIds :
    /\ i # j
    /\ reqs[i].st = "rejected" /\ reqs[i].resp.by = "foreign"
    /\ ~JsonParse(reqs[i].resp.body).ok
    /\ reqs[j].st = "rejected" /\ reqs[j].resp.by = "none"
    /\ unhandled = {i, j}

\* C7 (step): a click adds exactly one request, newly sent, and leaves every
\* earlier request as it was; nothing else adds a request.
C7_ClickStep ==
  /\ clicks' = clicks + 1 =>
       /\ Len(reqs') = Len(reqs) + 1
       /\ \A j \in Ids : reqs'[j] = reqs[j]
       /\ reqs'[Len(reqs')].st = "sent"
       /\ reqs'[Len(reqs')].from = "client"
  /\ clicks' = clicks => Len(reqs') = Len(reqs)

\* C7: after n clicks exactly n requests have been issued, one per click; a
\* click made while requests are outstanding issues its own and cancels none.
C7_OneRequestPerClick ==
  /\ [](Len(reqs) = clicks /\ Cardinality(ClientIds) = clicks)
  /\ [][C7_ClickStep]_vars

\* Two clicks' requests are outstanding at once.
C7_Witness ==
  /\ clicks = 2
  /\ \E i, j \in ClientIds : i # j /\ Outstanding(i) /\ Outstanding(j)

\* C12: nothing orders the handling of responses: a response that has
\* arrived can be taken up, parsed and logged whatever the state of the
\* other clicks' requests, in click order or against it, and the button can
\* be clicked while requests are outstanding.
C12_NoOrderGuarantee ==
  /\ \A i \in ClientIds :
       /\ reqs[i].st = "responded" => ENABLED FetchFulfilled(i)
       /\ reqs[i].st = "parsing" => ENABLED JsonSettled(i)
       /\ reqs[i].st = "parsed" => ENABLED LogPayload(i)
  /\ clicks < MaxClicks => ENABLED Click

\* The second click was made while the first request was outstanding, and
\* its payload was logged before the payload of the first; both came from
\* the server.
C12_Witness ==
  /\ Len(console) = 2
  /\ console[1].id > console[2].id
  /\ reqs[console[1].id].resp.by = "server"
  /\ reqs[console[2].id].resp.by = "server"
  /\ console[1].val = StrVal(ExpectedPayload)
  /\ console[2].val = StrVal(ExpectedPayload)

(***************************************************************************)
(* Properties of the embedded repository                                   *)
(***************************************************************************)
\* The commands that ask for the submodule to be brought to the pinned commit.
UpdatingOps == {"submodule update", "clone --recurse-submodules", "pull --recurse-submodules"}

Populated == subDir = "populated" /\ subRev # 0 /\ subFiles # NoFiles

\* C8 (step): the embedded directory goes from unpopulated to populated only
\* by a command that asks for it, and then holds the files of the ext commit
\* that the checked-out outer commit pins.
C8_PopulateStep ==
  (~Populated /\ Populated') =>
     /\ lastOp' \in UpdatingOps
     /\ subRev' = Pin(outer'[wcOuter'])
     /\ subFiles' = ext'[Pin(outer'[wcOuter'])].files

C9_PullStep ==
  /\ lastOp' \in {"pull", "fetch"} => UNCHANGED <<subDir, subRev, subFiles>>
  /\ (subRev' # subRev /\ subRev' <= Len(ext)) => lastOp' \in UpdatingOps

\* C9: git pull and git fetch in the monorepo never change the files or the
\* checked-out commit of the embedded directory, whatever is new in ext;
\* submodule update, or pull or clone with --recurse-submodules, does.
C9_PullLeavesSubmodule == [][C9_PullStep]_vars

\* A plain pull has brought in an outer commit that pins a newer ext commit,
\* and the embedded directory still has the older one.
C9_Witness ==
  /\ lastOp = "pull"
  /\ Populated
  /\ wcOuter = Len(outer)
  /\ Pin(outer[wcOuter]) > subRev
  /\ subFiles = ext[subRev].files

\* What every commit of outer holds for the embedded path: the mapping from
\* the path to the URL and a link to one commit of ext, no file of ext.
ByReference(c) ==
  /\ c.gitmodules = {<<SubPath, SubUrl>>}
  /\ \E rev \in 1..Len(ext) : c.links = {<<SubPath, rev>>}
  /\ \A b \in c.blobs : b[1] \notin InsideSub

\* C10 (step): a commit made inside the embedded directory adds one commit
\* to ext, holding the edited files, and leaves outer's history as it was.
C10_CommitInsideStep ==
  (lastOp' = "commit inside" /\ subFiles' # subFiles) =>
     /\ ext' = Append(ext, [files |-> subFiles'])
     /\ outer' = outer
     /\ wcOuter' = wcOuter

\* C10: the embedding is by reference: commits made inside the embedded
\* directory go to ext's history and not to outer's, and outer's history
\* holds .gitmodules and a link to an ext commit, never ext's files.
C10_EmbeddedByReference ==
  /\ [](\A n \in DOMAIN outer : ByReference(outer[n]))
  /\ [][C10_CommitInsideStep]_vars

\* A commit was made inside the embedded directory and then one in the
\* monorepo root, whose link points at the commit made inside.
C10_Witness ==
  /\ lastOp = "commit outside"
  /\ Len(outer) >= 2
  /\ ext[Len(ext)].files[1] = "me"
  /\ Pin(outer[Len(outer)]) = Len(ext)
  /\ subRev = Len(ext)

(***************************************************************************)
(* Properties of the shared declaration                                    *)
(***************************************************************************)
\* C11: QueryPayload is declared once and the import of the server's module
\* and the import of the client's module are bound to that one declaration,
\* the record with the single text field payload.
C11_SingleDeclaration ==
  /\ Cardinality({d \in UNION {Exports(m) : m \in Importers \cup {SharedModule}} :
                    d.name = TypeName}) = 1
  /\ \A m \in Importers :
       binding[m].st # "unchecked" =>
         /\ binding[m].st = "bound"
         /\ binding[m].decl.fields = {<<payload, "str">>}
         /\ \A n \in Importers :
              binding[n].st # "unchecked" => binding[n].decl = binding[m].decl

=============================================================================
